---- MODULE Spec2Model ----
(***************************************************************************)
(* A model of src/heating_eqn.py: the class Heat_Eqn (constructor, area,   *)
(* mat_constants, heateqn).  One behaviour is one constructed object and   *)
(* one call on it.  heateqn is modelled statement by statement: the lookup *)
(* (line 123), the derived parameters (127-135), the hat pulse (136-140),  *)
(* each write of the rate buffer x (145, 146, 147), the commit of a row    *)
(* (148) and the return (149-167).                                         *)
(*                                                                         *)
(* Numbers: Python floats are modelled as exact rationals <<n, d>> in      *)
(* lowest terms with d > 0, so every statement about values is a statement *)
(* under exact arithmetic.  Text: a str is a sequence of character codes,  *)
(* so that lower() is a computation.  A raised exception ends the call     *)
(* with pc = "area_raised" or "heat_raised" and its type in exc.           *)
(***************************************************************************)
EXTENDS Integers, Sequences, FiniteSets, TLC

\* self: the object's fields.  out: the messages printed.  pc: the position
\* of the call.  ret, exc: what the call returned or raised.  mat: the tuple
\* k, alpha, c, e, rho of line 123.  alphaprime, dx, dt, t, x, U, j, i, Th:
\* the locals of heateqn.  xsrc is a history variable: xsrc[n] is the row
\* from which x[n] was last computed, -1 while x[n] is still uninitialised.
VARIABLES self, out, pc, ret, exc, mat, alphaprime, dx, dt, t, x, U, j, i, Th, xsrc

vars == <<self, out, pc, ret, exc, mat, alphaprime, dx, dt, t, x, U, j, i, Th, xsrc>>

\* ------------------------------------------------------------------------
\* Bounds of the model.
\* ------------------------------------------------------------------------
\* Number_Of_Steps is drawn from 0..MaxNodes.
MaxNodes == 4
\* Shape lengths are drawn from 0..MaxLen.
MaxLen == 2

\* ------------------------------------------------------------------------
\* Exact rational arithmetic standing for Python float arithmetic.
\* ------------------------------------------------------------------------
Abs(n) == IF n < 0 THEN -n ELSE n

RECURSIVE GCD(_, _)
GCD(a, b) == IF b = 0 THEN a ELSE GCD(b, a % b)

\* The rational n/d (d # 0) in lowest terms with a positive denominator.
Rat(n, d) ==
    LET g == GCD(Abs(n), Abs(d))
        s == IF d < 0 THEN -1 ELSE 1
    IN  <<(s * n) \div g, Abs(d) \div g>>

Num(n) == <<n, 1>>
Zero == Num(0)
IsZero(a) == a[1] = 0

RAdd(a, b) ==
    LET g == GCD(a[2], b[2])
    IN  Rat(a[1] * (b[2] \div g) + b[1] * (a[2] \div g), (a[2] \div g) * b[2])

RNeg(a) == <<-a[1], a[2]>>
RSub(a, b) == RAdd(a, RNeg(b))

\* Both factors are in lowest terms, so cancelling crosswise first gives the
\* product in lowest terms without a large intermediate value.
RMul(a, b) ==
    LET g1 == GCD(Abs(a[1]), b[2])
        g2 == GCD(Abs(b[1]), a[2])
    IN  IF a[1] = 0 \/ b[1] = 0 THEN Zero
        ELSE <<(a[1] \div g1) * (b[1] \div g2), (a[2] \div g2) * (b[2] \div g1)>>

\* 1/a for a # 0.
RInv(a) == IF a[1] < 0 THEN <<-a[2], -a[1]>> ELSE <<a[2], a[1]>>
RDiv(a, b) == RMul(a, RInv(b))

RLt(a, b) == a[1] * b[2] < b[1] * a[2]
RLe(a, b) == a[1] * b[2] <= b[1] * a[2]
RMin(a, b) == IF RLe(a, b) THEN a ELSE b
RMax(a, b) == IF RLe(a, b) THEN b ELSE a

\* math.ceil of a float: the least integer >= a.
Ceil(a) ==
    IF a[1] >= 0 THEN (a[1] + a[2] - 1) \div a[2] ELSE -((-a[1]) \div a[2])

\* math.floor: the greatest integer <= a.
Floor(a) == -Ceil(RNeg(a))

\* int() of a float: truncation toward zero.
Trunc(a) == IF a[1] >= 0 THEN a[1] \div a[2] ELSE -((-a[1]) \div a[2])

\* ------------------------------------------------------------------------
\* Python values.
\* ------------------------------------------------------------------------
\* None.
NoneVal == <<>>

\* str.lower() on character codes: 'A'..'Z' (65..90) map to 'a'..'z'.
Lower(s) == [n \in DOMAIN s |-> IF s[n] \in 65..90 THEN s[n] + 32 ELSE s[n]]

\* The literals the source compares against (lines 78, 80, 82, 84).
ellipse == <<101, 108, 108, 105, 112, 115, 101>>
rectangle == <<114, 101, 99, 116, 97, 110, 103, 108, 101>>
triangle == <<116, 114, 105, 97, 110, 103, 108, 101>>
hexagon == <<104, 101, 120, 97, 103, 111, 110>>

\* A float, and the one-element tuple (v,).
PyFloat(v) == [tag |-> "float", v |-> v]
PyTuple1(v) == [tag |-> "tuple", v |-> v]

\* ------------------------------------------------------------------------
\* The property table thermal_prop of Thermal.db: two of its rows
\* (Material, Conductivity, Diffusivity, Specific_Heat, Effusivity, Density).
\* ------------------------------------------------------------------------
Air == <<65, 105, 114>>
Aluminum == <<65, 108, 117, 109, 105, 110, 117, 109>>
Aluminium == <<65, 108, 117, 109, 105, 110, 105, 117, 109>>

thermal_prop ==
    << <<Air, Rat(25, 1000), Rat(194, 10), Num(1004), Num(6), Rat(129, 100)>>,
       <<Aluminum, Rat(22594, 100), Num(91), Num(921), Num(23688), Num(2698)>> >>

\* ------------------------------------------------------------------------
\* Heat_Eqn.__init__ (lines 50-68).
\* ------------------------------------------------------------------------
\* Lines 50-51: the warning printed for an incomplete hat function.
MissingHatParameter(Hat_Function, Temperature_0, Location_of_Temp, Length_Of_Hat_Function) ==
    /\ Hat_Function = TRUE
    /\ \/ Temperature_0 = NoneVal
       \/ Location_of_Temp = NoneVal
       \/ Length_Of_Hat_Function = NoneVal

\* Lines 52-54: a one-length profile is stored as (Shape_Lengths, 0), whose
\* first element is the tuple that was passed in.
NormaliseLengths(Shape_Lengths) ==
    IF Len(Shape_Lengths) = 1
    THEN <<PyTuple1(Shape_Lengths[1]), PyFloat(0)>>
    ELSE <<PyFloat(Shape_Lengths[1]), PyFloat(Shape_Lengths[2])>>

\* Lines 55-68: the fields of the object.
Construct(a) ==
    [Material |-> a.Material,
     Number_Of_Steps |-> a.Number_Of_Steps,
     Shape |-> a.Shape,
     Shape_Lengths |-> NormaliseLengths(a.Shape_Lengths),
     Length |-> a.Length,
     Time |-> a.Time,
     Left_Boundary |-> a.Left_Boundary,
     Right_Boundary |-> a.Right_Boundary,
     Gif |-> FALSE,
     Graph |-> FALSE,
     Hat_Function |-> a.Hat[1],
     Temperature_0 |-> a.Hat[2],
     Location_of_Temp |-> a.Hat[3],
     Length_Of_Hat_Function |-> a.Hat[4]]

\* ------------------------------------------------------------------------
\* The constructor arguments the model draws from.
\* ------------------------------------------------------------------------
Capitalised(s) == [n \in DOMAIN s |-> IF n = 1 THEN s[n] - 32 ELSE s[n]]
Upper(s) == [n \in DOMAIN s |-> IF s[n] \in 97..122 THEN s[n] - 32 ELSE s[n]]
pentagon == <<112, 101, 110, 116, 97, 103, 111, 110>>

MaterialNames == {Air, Upper(Air), Lower(Aluminum), Aluminium}
ShapeNames ==
    UNION {{s, Capitalised(s), Upper(s)} :
           s \in {ellipse, rectangle, triangle, hexagon, pentagon}}
ShapeLengths ==
    {<<a>> : a \in 0..MaxLen} \cup {<<a, b>> : a \in 0..MaxLen, b \in 0..MaxLen}
Lengths == {Num(-1), Num(0), Num(1)}
Times == {Num(-1), Num(0), Num(1500), Num(7000)}
Temps == {Num(-1), Num(0), Num(2)}
HatTemp == Num(3)
HatOptions ==
    {<<FALSE, NoneVal, NoneVal, NoneVal>>,
     <<TRUE, NoneVal, NoneVal, NoneVal>>,
     <<TRUE, HatTemp, NoneVal, NoneVal>>,
     <<TRUE, HatTemp, Rat(1, 2), NoneVal>>,
     <<TRUE, HatTemp, NoneVal, Num(2)>>}
    \cup {<<TRUE, HatTemp, loc, len>> :
          loc \in {Rat(1, 5), Rat(1, 2), Num(1)}, len \in {Num(1), Num(2), Num(4)}}

\* Runs of the solver: the shape of the __main__ call (line 316).
\* Aluminum diffuses five times faster than air, so it is run for the shorter
\* times only: that keeps every run within a few rows.
HeatArgs ==
    {a \in [Material : MaterialNames, Number_Of_Steps : 0..MaxNodes, Shape : {ellipse},
            Shape_Lengths : {<<1, 1>>}, Length : Lengths, Time : Times,
            Left_Boundary : Temps, Right_Boundary : Temps, Hat : HatOptions] :
        Lower(a.Material) = Lower(Aluminum) => RLe(a.Time, Num(1500))}

\* Objects built for area(), as the tests build them (lines 244-267).
AreaArgs ==
    [Material : {Air}, Number_Of_Steps : {2}, Shape : ShapeNames,
     Shape_Lengths : ShapeLengths, Length : {Num(1)}, Time : {Num(1500)},
     Left_Boundary : {Num(2)}, Right_Boundary : {Num(2)},
     Hat : {<<FALSE, NoneVal, NoneVal, NoneVal>>}]

Args == HeatArgs \cup AreaArgs

\* np.empty(m) holds whatever the memory held: two representative contents.
Garbage == {Num(7), Num(-9)}

Init ==
    \E a \in Args :
        /\ self = Construct(a)
        /\ out = IF MissingHatParameter(a.Hat[1], a.Hat[2], a.Hat[3], a.Hat[4])
                 THEN {"missing_hat_parameter"} ELSE {}
        /\ pc = "constructed"
        /\ ret = NoneVal
        /\ exc = "none"
        /\ mat = NoneVal
        /\ alphaprime = NoneVal
        /\ dx = NoneVal
        /\ dt = NoneVal
        /\ t = <<>>
        /\ x = <<>>
        /\ U = <<>>
        /\ j = 0
        /\ i = 0
        /\ Th = NoneVal
        /\ xsrc = <<>>

\* ------------------------------------------------------------------------
\* Heat_Eqn.area (lines 69-88).  A number is returned as its coefficient
\* and the irrational unit it multiplies: pi, sqrt(3) or 1.
\* ------------------------------------------------------------------------
AreaValue(unit, coef) == [tag |-> "float", unit |-> unit, coef |-> coef]

\* The outcome of area(): <<"return", value>> or <<"raise", type>>.
AreaOutcome(shape, lengths) ==
    LET a == lengths[1]
        b == lengths[2]
        name == Lower(shape)
    IN  IF name = ellipse THEN
            \* np.pi*a*b: float * tuple raises
            IF a.tag = "tuple" THEN <<"raise", "TypeError">>
            ELSE <<"return", AreaValue("pi", Num(a.v * b.v))>>
        ELSE IF name = rectangle THEN
            \* a*b: tuple * int repeats the tuple; (v,)*0 is ()
            IF a.tag = "tuple" THEN <<"return", [tag |-> "tuple", len |-> b.v]>>
            ELSE <<"return", AreaValue("1", Num(a.v * b.v))>>
        ELSE IF name = triangle THEN
            \* a**2: tuple ** int raises
            IF a.tag = "tuple" THEN <<"raise", "TypeError">>
            ELSE <<"return", AreaValue("sqrt3", Rat(a.v * a.v, 4))>>
        ELSE IF name = hexagon THEN
            IF a.tag = "tuple" THEN <<"raise", "TypeError">>
            ELSE <<"return", AreaValue("sqrt3", Rat(3 * (a.v * a.v), 2))>>
        ELSE <<"none", NoneVal>>

HeatLocals == <<mat, alphaprime, dx, dt, t, x, U, j, i, Th, xsrc>>

area ==
    /\ pc = "constructed"
    /\ LET o == AreaOutcome(self.Shape, self.Shape_Lengths)
       IN  /\ pc' = IF o[1] = "raise" THEN "area_raised" ELSE "area_returned"
           /\ ret' = IF o[1] = "raise" THEN NoneVal ELSE o[2]
           /\ exc' = IF o[1] = "raise" THEN o[2] ELSE "none"
           /\ out' = IF o[1] = "none"
                     THEN out \cup {"shape_not_supported"} ELSE out
    /\ UNCHANGED <<self, HeatLocals>>

\* ------------------------------------------------------------------------
\* Heat_Eqn.mat_constants (lines 89-115).
\* ------------------------------------------------------------------------
\* Lines 102-104: SELECT * FROM thermal_prop WHERE lower(Material) = mat.
Select(material) ==
    SelectSeq(thermal_prop, LAMBDA row : Lower(row[1]) = Lower(material))

\* Lines 105-115: None for no row, else the five constants of the first row.
MatConstants(material) ==
    LET lis == Select(material)
    IN  IF Len(lis) = 0 THEN NoneVal
        ELSE <<lis[1][2], lis[1][3], lis[1][4], lis[1][5], lis[1][6]>>

mat_constants ==
    /\ pc = "constructed"
    /\ ret' = MatConstants(self.Material)
    /\ out' = IF MatConstants(self.Material) = NoneVal
              THEN out \cup {"material_not_in_database"} ELSE out
    /\ pc' = "mat_returned"
    /\ UNCHANGED <<self, exc, HeatLocals>>

\* ------------------------------------------------------------------------
\* Heat_Eqn.heateqn (lines 116-167).
\* ------------------------------------------------------------------------
\* Lines 123-126: the lookup.  Unpacking None into five names raises before
\* the test of line 124 is reached.
heateqn_lookup ==
    /\ pc = "constructed"
    /\ LET r == MatConstants(self.Material)
       IN  IF r = NoneVal
           THEN /\ out' = out \cup {"material_not_in_database"}
                /\ pc' = "heat_raised"
                /\ exc' = "TypeError"
                /\ UNCHANGED <<mat, ret>>
           ELSE /\ mat' = r
                /\ exc' = exc
                /\ IF r[1] = NoneVal
                   THEN /\ out' = out \cup {"an_error_occured"}
                        /\ pc' = "heat_returned_none"
                        /\ ret' = NoneVal
                   ELSE /\ pc' = "setup"
                        /\ UNCHANGED <<out, ret>>
    /\ UNCHANGED <<self, alphaprime, dx, dt, t, x, U, j, i, Th, xsrc>>

\* Line 128: alphaprime = k / (c*rho), from k, alpha, c, e, rho.
AlphaPrime(m5) == RDiv(m5[1], RMul(m5[3], m5[5]))

\* Line 130: dx = xf/m.
\* (Variant: the spacing of m+1 fence posts.)
CellWidthFenceposts(xf, m) == RDiv(xf, Num(m + 1))
CellWidth(xf, m) == RDiv(xf, Num(m))

\* Line 132: dt = (dx**2)/(2*alphaprime).
\* (Variant: without the factor 2 of the stability bound.)
TimeStepHalved(d, a) == RDiv(RMul(d, d), a)
TimeStep(d, a) == RDiv(RMul(d, d), RMul(Num(2), a))

\* Line 133: np.arange(0, tf, dt) for dt > 0: the samples n*dt, n = 0, 1, ...,
\* that are below tf.
RECURSIVE ArangeFrom(_, _, _)
ArangeFrom(n, stop, step) ==
    IF RLt(RMul(Num(n), step), stop)
    THEN <<RMul(Num(n), step)>> \o ArangeFrom(n + 1, stop, step)
    ELSE <<>>

Arange(stop, step) == ArangeFrom(0, stop, step)

\* Lines 127-135.  Division by m = 0 raises at line 130; a zero step makes
\* np.arange raise at line 133.
heateqn_setup ==
    /\ pc = "setup"
    /\ LET m == self.Number_Of_Steps
           a == AlphaPrime(mat)
       IN  IF m = 0
           THEN /\ pc' = "heat_raised"
                /\ exc' = "ZeroDivisionError"
                /\ alphaprime' = a
                /\ UNCHANGED <<dx, dt, t, x, U, xsrc>>
           ELSE LET d == CellWidth(self.Length, m)
                    s == TimeStep(d, a)
                IN  /\ alphaprime' = a
                    /\ dx' = d
                    /\ dt' = s
                    /\ IF IsZero(s)
                       THEN /\ pc' = "heat_raised"
                            /\ exc' = "ValueError"
                            /\ UNCHANGED <<t, x, U, xsrc>>
                       ELSE /\ t' = Arange(self.Time, s)
                            /\ \E g \in Garbage : x' = [n \in 0..(m - 1) |-> g]
                            /\ xsrc' = [n \in 0..(m - 1) |-> -1]
                            /\ U' = [r \in 0..(Len(t') - 1) |-> [n \in 0..(m - 1) |-> Zero]]
                            /\ pc' = "hat"
                            /\ exc' = exc
    /\ UNCHANGED <<self, out, ret, mat, j, i, Th>>

\* A slice bound of a sequence of length n, as Python resolves it: a negative
\* bound counts from the end, and both ends are clamped to 0..n.
SliceBound(b, n) ==
    IF b < 0 THEN (IF b + n < 0 THEN 0 ELSE b + n) ELSE (IF b > n THEN n ELSE b)

\* The indices of seq[lo:hi] for a sequence of length n.
SliceIndices(lo, hi, n) ==
    {k \in 0..(n - 1) : SliceBound(lo, n) <= k /\ k < SliceBound(hi, n)}

\* Line 137: deltafunction = int(ceil(Length_Of_Hat_Function/2)).
DeltaFunction(len) == Ceil(RDiv(len, Num(2)))

\* Line 139: startingcondition = int(((T_0/xf)*m)-1).
StartingCondition(T_0, xf, m) ==
    Trunc(RSub(RMul(RDiv(T_0, xf), Num(m)), Num(1)))

\* Line 140: the nodes of row 0 that the slice assignment writes.
HatNodes(T_0, len, xf, m) ==
    SliceIndices(StartingCondition(T_0, xf, m) - DeltaFunction(len),
                 StartingCondition(T_0, xf, m) + DeltaFunction(len), m)

\* Lines 136-142.
heateqn_hat ==
    /\ pc = "hat"
    /\ IF self.Hat_Function = TRUE
       THEN IF self.Length_Of_Hat_Function = NoneVal \/ self.Location_of_Temp = NoneVal
            THEN \* None/2 at line 137, None/xf at line 139
                 /\ pc' = "heat_raised"
                 /\ exc' = "TypeError"
                 /\ U' = U
            ELSE IF Len(t) = 0
            THEN \* U has no row 0
                 /\ pc' = "heat_raised"
                 /\ exc' = "IndexError"
                 /\ U' = U
            ELSE /\ U' = [U EXCEPT ![0] =
                             [n \in DOMAIN U[0] |->
                                 IF n \in HatNodes(self.Location_of_Temp,
                                                   self.Length_Of_Hat_Function,
                                                   self.Length, self.Number_Of_Steps)
                                 THEN self.Temperature_0 ELSE U[0][n]]]
                 /\ pc' = "loop"
                 /\ exc' = exc
       ELSE /\ pc' = "loop"
            /\ UNCHANGED <<U, exc>>
    /\ j' = 0
    /\ UNCHANGED <<self, out, ret, mat, alphaprime, dx, dt, t, x, i, Th, xsrc>>

\* Line 143: for j in range(0, len(t)-1).
heateqn_loop ==
    /\ pc = "loop"
    /\ IF j < Len(t) - 1
       THEN pc' = "inner" /\ i' = 1
       ELSE pc' = "return" /\ i' = i
    /\ UNCHANGED <<self, out, ret, exc, mat, alphaprime, dx, dt, t, x, U, j, Th, xsrc>>

\* Lines 145-147: alphaprime*((right - 2*centre + left)/(dx**2)).
\* (Variant: the centre value taken once.)
RateSingleCentre(a, left, centre, right, d) ==
    RMul(a, RDiv(RAdd(RSub(right, centre), left), RMul(d, d)))
Rate(a, left, centre, right, d) ==
    RMul(a, RDiv(RAdd(RSub(right, RMul(Num(2), centre)), left), RMul(d, d)))

\* Lines 144-145: one pass of for i in range(1, m-1).
\* (Variant: the left neighbour read from the row being written.)
InteriorRateAhead(n) == Rate(alphaprime, U[j + 1][n - 1], U[j][n], U[j][n + 1], dx)
InteriorRate(n) == Rate(alphaprime, U[j][n - 1], U[j][n], U[j][n + 1], dx)

heateqn_inner ==
    /\ pc = "inner"
    /\ IF i < self.Number_Of_Steps - 1
       THEN /\ x' = [x EXCEPT ![i] = InteriorRate(i)]
            /\ xsrc' = [xsrc EXCEPT ![i] = j]
            /\ i' = i + 1
            /\ pc' = pc
       ELSE /\ pc' = "left"
            /\ UNCHANGED <<x, xsrc, i>>
    /\ UNCHANGED <<self, out, ret, exc, mat, alphaprime, dx, dt, t, U, j, Th>>

\* Line 146: x[0]; U[j,1] does not exist when m = 1.
heateqn_left ==
    /\ pc = "left"
    /\ IF self.Number_Of_Steps = 1
       THEN /\ pc' = "heat_raised"
            /\ exc' = "IndexError"
            /\ UNCHANGED <<x, xsrc>>
       ELSE /\ x' = [x EXCEPT ![0] = Rate(alphaprime, self.Left_Boundary, U[j][0], U[j][1], dx)]
            /\ xsrc' = [xsrc EXCEPT ![0] = j]
            /\ pc' = "right"
            /\ exc' = exc
    /\ UNCHANGED <<self, out, ret, mat, alphaprime, dx, dt, t, U, j, i, Th>>

\* Line 147: x[m-1].
heateqn_right ==
    /\ pc = "right"
    /\ LET m == self.Number_Of_Steps
       IN  /\ x' = [x EXCEPT ![m - 1] =
                       Rate(alphaprime, U[j][m - 2], U[j][m - 1], self.Right_Boundary, dx)]
           /\ xsrc' = [xsrc EXCEPT ![m - 1] = j]
    /\ pc' = "commit"
    /\ UNCHANGED <<self, out, ret, exc, mat, alphaprime, dx, dt, t, U, j, i, Th>>

\* Line 148: U[j+1,:] = (U[j,:]+(x[:]*dt)).
\* (Variant: the row written over the row just read.)
CommitTargetSame(r) == r
CommitTarget(r) == r + 1

heateqn_commit ==
    /\ pc = "commit"
    /\ U' = [U EXCEPT ![CommitTarget(j)] =
                [n \in DOMAIN U[j] |-> RAdd(U[j][n], RMul(x[n], dt))]]
    /\ j' = j + 1
    /\ pc' = "loop"
    /\ UNCHANGED <<self, out, ret, exc, mat, alphaprime, dx, dt, t, x, i, Th, xsrc>>

\* Lines 150-161: the display scale.
HighestTemp(T0, bl, br) ==
    IF T0 = NoneVal
    THEN (IF RLe(bl, br) THEN br ELSE bl)
    ELSE IF RLt(bl, T0) /\ RLt(br, T0) THEN T0
    ELSE IF RLe(bl, br) THEN br
    ELSE bl

\* Lines 149-167, with Gif and Graph both False: the field is returned.
heateqn_return ==
    /\ pc = "return"
    /\ Th' = HighestTemp(self.Temperature_0, self.Left_Boundary, self.Right_Boundary)
    /\ ret' = U
    /\ pc' = "heat_returned"
    /\ UNCHANGED <<self, out, exc, mat, alphaprime, dx, dt, t, x, U, j, i, xsrc>>

Next ==
    \/ area
    \/ mat_constants
    \/ heateqn_lookup
    \/ heateqn_setup
    \/ heateqn_hat
    \/ heateqn_loop
    \/ heateqn_inner
    \/ heateqn_left
    \/ heateqn_right
    \/ heateqn_commit
    \/ heateqn_return

Spec == Init /\ [][Next]_vars

\* ------------------------------------------------------------------------
\* Vocabulary of the properties.
\* ------------------------------------------------------------------------
m == self.Number_Of_Steps
bl == self.Left_Boundary
br == self.Right_Boundary

\* The positions of heateqn from the loop head on: rows 0..j of U are final.
Stepping == pc \in {"loop", "inner", "left", "right", "commit", "return", "heat_returned"}

\* The positions of heateqn after lines 127-135 have run.
Prepared == pc = "hat" \/ Stepping

\* The stencil neighbours of node n in a row, the boundary temperature
\* standing in at an edge.
LeftOf(row, n) == IF n = 0 THEN bl ELSE row[n - 1]
RightOf(row, n) == IF n = m - 1 THEN br ELSE row[n + 1]
Curvature(row, n) == RAdd(RSub(RightOf(row, n), RMul(Num(2), row[n])), LeftOf(row, n))

\* alpha' * dt / dx^2.
Courant == RDiv(RMul(alphaprime, dt), RMul(dx, dx))

\* The buffered reference step: every node from the old row.
BufferedRow(row) == [n \in 0..(m - 1) |-> RAdd(row[n], RMul(Courant, Curvature(row, n)))]

\* The in-place step: node n reads the already updated node n-1.
InPlaceRow(row) ==
    LET f[n \in 0..(m - 1)] ==
            LET left == IF n = 0 THEN bl ELSE f[n - 1]
            IN  RAdd(row[n],
                     RMul(Courant,
                          RAdd(RSub(RightOf(row, n), RMul(Num(2), row[n])), left)))
    IN  f

\* heateqn has returned the field.
Returned == pc = "heat_returned"

\* The last row of the returned field.
LastRow == Len(t) - 1

\* C1: for numberOfNodes >= 2 and every step r from 0 to rowCount-2, row
\* r+1 of the field heateqn returns is the buffered reference step of row r
\* (ghost boundary values at the two edges), and it is not the in-place
\* result where the two differ.
C1_BufferedStep ==
    (Returned /\ m >= 2) =>
        \A r \in 0..(LastRow - 1) :
            /\ ret[r + 1] = BufferedRow(ret[r])
            /\ InPlaceRow(ret[r]) # BufferedRow(ret[r]) => ret[r + 1] # InPlaceRow(ret[r])

\* C1 witness: a returned field of two nodes (no interior node) with a
\* step on which the in-place and the buffered results differ.
C1_Witness ==
    /\ Returned
    /\ m = 2
    /\ Len(t) >= 2
    /\ \E r \in 0..(LastRow - 1) : InPlaceRow(ret[r]) # BufferedRow(ret[r])

\* The rate of node n computed from a row.
RateFrom(row, n) == Rate(alphaprime, LeftOf(row, n), row[n], RightOf(row, n), dx)

C2_Step ==
    Stepping =>
        \* a committed row, row 0 included, is never modified again
        /\ DOMAIN U' = DOMAIN U
        /\ \A r \in DOMAIN U : r <= j => U'[r] = U[r]
        \* a row is written only by the commit of step j, as row j+1, after
        \* every entry of the rate buffer has been written from row j
        /\ U' # U =>
              /\ pc = "commit"
              /\ \A n \in 0..(m - 1) : xsrc[n] = j /\ x[n] = RateFrom(U[j], n)
              /\ \A r \in DOMAIN U : r # j + 1 => U'[r] = U[r]
              /\ j' = j + 1
        \* a rate is computed from row j and from no other row
        /\ \A n \in DOMAIN x :
              (x'[n] # x[n] \/ xsrc'[n] # xsrc[n]) =>
                  /\ xsrc'[n] = j
                  /\ x'[n] = RateFrom(U[j], n)
        \* rows are committed in ascending order
        /\ j' \in {j, j + 1}
        /\ j' = j + 1 => U'[j + 1] = [n \in 0..(m - 1) |-> RAdd(U[j][n], RMul(x[n], dt))]

\* C2: in the stepping loop the whole rate buffer is written from row j
\* before row j+1 is written, no rate is computed from row j+1, rows are
\* committed in ascending time order, and a committed row (row 0 included)
\* is never modified again.
C2_DoubleBuffered == [][C2_Step]_vars

\* C2 witness: the second step of a run with an interior node is about to
\* commit, the buffer written afresh over the first step's rates.
C2_Witness ==
    /\ pc = "commit"
    /\ j >= 1
    /\ m >= 3
    /\ \E n \in 0..(m - 1) : U[j][n] # U[j - 1][n]

\* C3: dt = dx^2/(2 alpha') with dx = length/numberOfNodes and
\* alpha' = conductivity/(specificHeat*density), not the stored diffusivity;
\* for a positive totalTime the field has ceil(totalTime/dt) rows, one per
\* sample 0, dt, 2dt, ... below totalTime, and numberOfNodes columns.
C3_TimeAxis ==
    Prepared =>
        /\ alphaprime = RDiv(mat[1], RMul(mat[3], mat[5]))
        /\ alphaprime # mat[2]
        /\ dx = RDiv(self.Length, Num(m))
        /\ dt = RDiv(RMul(dx, dx), RMul(Num(2), alphaprime))
        /\ dt # RDiv(RMul(dx, dx), RMul(Num(2), mat[2]))
        /\ RLt(Zero, self.Time) =>
              /\ Len(t) = Ceil(RDiv(self.Time, dt))
              /\ \A n \in 1..Len(t) : t[n] = RMul(Num(n - 1), dt) /\ RLt(t[n], self.Time)
              /\ RLe(self.Time, RMul(Num(Len(t)), dt))
              /\ DOMAIN U = 0..(Len(t) - 1)
              /\ \A r \in DOMAIN U : DOMAIN U[r] = 0..(m - 1)
              /\ pc = "heat_returned" => ret = U

\* C3 witness: a returned field of several rows whose totalTime is not a
\* multiple of dt.
C3_Witness ==
    /\ Returned
    /\ Len(t) >= 3
    /\ RLt(self.Time, RMul(Num(Len(t)), dt))

\* The least and the greatest of the row-0 values and the two boundary
\* temperatures.
RECURSIVE FoldRow(_, _, _, _)
FoldRow(Op(_, _), row, n, acc) ==
    IF n < 0 THEN acc ELSE FoldRow(Op, row, n - 1, Op(acc, row[n]))
DataMin == FoldRow(RMin, ret[0], m - 1, RMin(bl, br))
DataMax == FoldRow(RMax, ret[0], m - 1, RMax(bl, br))

\* C10: for numberOfNodes >= 2 every committed value of the returned field
\* is the mean of the node's two stencil neighbours in the row before, so
\* every value of the field lies between the least and the greatest of the
\* row-0 values and the two boundary temperatures.
C10_MaximumPrinciple ==
    (Returned /\ m >= 2 /\ Len(t) >= 1) =>
        /\ \A r \in 1..LastRow : \A n \in 0..(m - 1) :
              ret[r][n] = RDiv(RAdd(LeftOf(ret[r - 1], n), RightOf(ret[r - 1], n)), Num(2))
        /\ \A r \in 0..LastRow : \A n \in 0..(m - 1) :
              RLe(DataMin, ret[r][n]) /\ RLe(ret[r][n], DataMax)

\* C10 witness: a returned field with a hat pulse in row 0, unequal
\* boundary temperatures and at least three rows.
C10_Witness ==
    /\ Returned
    /\ m >= 3
    /\ Len(t) >= 3
    /\ bl # br
    /\ \E n \in 0..(m - 1) : ret[0][n] = self.Temperature_0 /\ self.Hat_Function = TRUE

\* The configurations the specification rejects.
InvalidConfiguration ==
    \/ m < 2
    \/ RLe(self.Length, Zero)
    \/ RLe(self.Time, Zero)
    \/ MissingHatParameter(self.Hat_Function, self.Temperature_0,
                           self.Location_of_Temp, self.Length_Of_Hat_Function)

RAbs(a) == <<Abs(a[1]), a[2]>>

\* A field returned by a run with equal boundary temperatures and no hat
\* pulse.
EqualBoundariesNoHat == Returned /\ Len(t) >= 1 /\ bl = br /\ self.Hat_Function = FALSE

\* Node by node, row r+1 is no further from the boundary temperature than
\* row r.
ApproachesBoundary ==
    \A r \in 0..(LastRow - 1) : \A n \in 0..(m - 1) :
        RLe(RAbs(RSub(ret[r + 1][n], bl)), RAbs(RSub(ret[r][n], bl)))

\* C4 as stated, for the configurations the specification accepts: with
\* leftBoundaryTemp = rightBoundaryTemp = T and no hat pulse every value of
\* the field lies in [0, T] and approaches T monotonically.
C4_AsStated ==
    (EqualBoundariesNoHat /\ ~InvalidConfiguration) =>
        /\ \A r \in 0..LastRow : \A n \in 0..(m - 1) : RLe(Zero, ret[r][n]) /\ RLe(ret[r][n], bl)
        /\ ApproachesBoundary

\* C4 amended: with leftBoundaryTemp = rightBoundaryTemp = T and no hat
\* pulse every value of the field lies between 0 and T, that is in
\* [min(0, T), max(0, T)], and approaches T monotonically.
C4_BetweenZeroAndT ==
    EqualBoundariesNoHat =>
        /\ \A r \in 0..LastRow : \A n \in 0..(m - 1) :
              RLe(RMin(Zero, bl), ret[r][n]) /\ RLe(ret[r][n], RMax(Zero, bl))
        /\ ApproachesBoundary

\* C4 witness: a returned field of at least three rows with a negative
\* boundary temperature, some node strictly between 0 and T and still moving.
C4_Witness ==
    /\ EqualBoundariesNoHat
    /\ RLt(bl, Zero)
    /\ Len(t) >= 3
    /\ \E n \in 0..(m - 1) : RLt(ret[2][n], ret[1][n]) /\ RLt(bl, ret[2][n])

\* The hat pulse is requested with all three of its parameters.
CompleteHat ==
    /\ self.Hat_Function = TRUE
    /\ self.Temperature_0 # NoneVal
    /\ self.Location_of_Temp # NoneVal
    /\ self.Length_Of_Hat_Function # NoneVal

\* centerIndex = floor((location/length)*numberOfNodes) - 1 and
\* halfWidth = ceil(plateauLength/2).
centerIndex == Floor(RMul(RDiv(self.Location_of_Temp, self.Length), Num(m))) - 1
halfWidth == Ceil(RDiv(self.Length_Of_Hat_Function, Num(2)))

\* C5, for the configurations the specification accepts: with a hat pulse,
\* row 0 has exactly the nodes of
\* [centerIndex - halfWidth, centerIndex + halfWidth) that lie in
\* [0, numberOfNodes) at initialTemp and every other node at zero: a range
\* reaching below node 0 or past the last node is clipped.
C5_HatClipped ==
    (Returned /\ CompleteHat /\ ~InvalidConfiguration) =>
        \A n \in 0..(m - 1) :
            ret[0][n] = IF centerIndex - halfWidth <= n /\ n < centerIndex + halfWidth
                      THEN self.Temperature_0 ELSE Zero

\* C6: a run with numberOfNodes < 2, length <= 0, totalTime <= 0 or an
\* incomplete hat pulse fails before any stepping begins: no row is
\* computed and no field, full, partial or empty, is returned.
C6_RejectsInvalid ==
    InvalidConfiguration => (pc # "heat_returned" /\ pc # "commit" /\ j = 0)

\* C7: for a material absent from the property store mat_constants returns
\* None and heateqn returns None before any stepping, raising nothing; for
\* a material that is present the lookup matches without regard to case and
\* returns the stored five constants.
C7_NotFoundReturned ==
    /\ MatConstants(self.Material) = NoneVal =>
          /\ pc \in {"constructed", "mat_returned", "heat_returned_none",
                     "area_returned", "area_raised"}
          /\ pc \in {"mat_returned", "heat_returned_none"} => ret = NoneVal
    /\ (pc = "mat_returned" /\ MatConstants(self.Material) # NoneVal) =>
          \E n \in DOMAIN thermal_prop :
              /\ Lower(thermal_prop[n][1]) = Lower(self.Material)
              /\ ret = SubSeq(thermal_prop[n], 2, 6)

\* The area() call has ended.
AreaEnded == pc \in {"area_returned", "area_raised"}

\* The closed-form area of a shape name for the lengths a and b.
ClosedForm(name, a, b) ==
    IF name = ellipse THEN AreaValue("pi", Num(a * b))
    ELSE IF name = rectangle THEN AreaValue("1", Num(a * b))
    ELSE IF name = triangle THEN AreaValue("sqrt3", Rat(a * a, 4))
    ELSE AreaValue("sqrt3", Rat(3 * (a * a), 2))

\* C8: area() picks the formula by the lower-cased shape name (ellipse,
\* rectangle, triangle, hexagon) and returns its value for the stored
\* lengths, 0 for a zero length included; any other name gives None.
C8_AreaByShape ==
    AreaEnded =>
        IF Lower(self.Shape) \in {ellipse, rectangle, triangle, hexagon}
        THEN /\ pc = "area_returned"
             /\ ret = ClosedForm(Lower(self.Shape), self.Shape_Lengths[1].v,
                                 self.Shape_Lengths[2].v)
        ELSE pc = "area_returned" /\ ret = NoneVal

\* C9: the stored Shape_Lengths is a pair of numbers, (a, 0) for a profile
\* of the one length a, so that area() of a triangle or a hexagon returns
\* the closed form in a.
C9_SingleLengthStored ==
    /\ self.Shape_Lengths[1].tag = "float"
    /\ self.Shape_Lengths[2].tag = "float"
    /\ (AreaEnded /\ Lower(self.Shape) \in {triangle, hexagon}) =>
          /\ pc = "area_returned"
          /\ ret.tag = "float"
          /\ ret.unit = "sqrt3"

====
